---- MODULE Spec2Model ----
(***************************************************************************)
(* Model of warchief_game/scripts/generate_source_tree.py: a recursive     *)
(* scan of a project directory (build_tree), the aggregation of the tree   *)
(* (calculate_totals), the root lookup (find_project_root) and the run of  *)
(* the tool (main).                                                        *)
(*                                                                         *)
(* File names are strings; a path below the scan root is the sequence of   *)
(* the names that lead to it (<<>> is the scan root itself); a path outside *)
(* the scan root is the sequence of the names from "/".  The content       *)
(* of a file is a string with one character per byte, "~" standing for a   *)
(* byte that is not valid UTF-8 and "^" for a byte of a character that     *)
(* takes several bytes.                                                    *)
(*                                                                         *)
(* The order in which the platform lists a directory is not fixed by the   *)
(* program: every entry carries its place in the listing of its directory, *)
(* and the environment and the runs put new entries at any place.          *)
(***************************************************************************)
EXTENDS Integers, Sequences, FiniteSets, TLC

VARIABLES
    fs,         \* the directory tree under the scan root: path -> entry
    outside,    \* the directories outside the scan root: path from "/" -> entry
    rootName,   \* base name of the scan root (Path.name of root_path)
    runs,       \* the finished runs of main, oldest first
    cwd,        \* the working directory, as names from "/"
    resolved    \* the --root argument and the root main resolved from it

vars == <<fs, outside, rootName, runs, cwd, resolved>>

----------------------------------------------------------------------------
(* Strings *)

\* the printable ASCII characters, in runs of consecutive code points
Printable ==
    << <<32, " !\"#$%&'()*+,-./0123456789:;<=>?">>,
       <<64, "@ABCDEFGHIJKLMNOPQRSTUVWXYZ[\\]^_">>,
       <<97, "abcdefghijklmnopqrstuvwxyz{|}~">> >>

CharAt(s, i) == SubSeq(s, i, i)

\* code point of every character of the table
OrdTable ==
    LET at == { <<r, i>> : r \in 1..Len(Printable), i \in 1..32 }
        ok == { x \in at : x[2] <= Len(Printable[x[1]][2]) }
        chars == { CharAt(Printable[x[1]][2], x[2]) : x \in ok }
    IN  [ c \in chars |->
            LET x == CHOOSE x \in ok : CharAt(Printable[x[1]][2], x[2]) = c
            IN  Printable[x[1]][1] + x[2] - 1 ]

\* ord(c): the code point of a character
Ord(c) == OrdTable[c]

LowerTable ==
    [ c \in DOMAIN OrdTable |->
        IF OrdTable[c] \in 65..90
        THEN CHOOSE d \in DOMAIN OrdTable : OrdTable[d] = OrdTable[c] + 32
        ELSE c ]

LowerChar(c) == LowerTable[c]

RECURSIVE lower(_)
\* str.lower() on ASCII text
lower(s) == IF s = "" THEN "" ELSE LowerChar(Head(s)) \o lower(Tail(s))

\* s < t for Python strings: code points compared left to right
StrLess(s, t) ==
    \E i \in 1..Len(t) :
        /\ i <= Len(s) + 1
        /\ SubSeq(s, 1, i - 1) = SubSeq(t, 1, i - 1)
        /\ \/ i = Len(s) + 1
           \/ Ord(CharAt(s, i)) < Ord(CharAt(t, i))

startswith(s, prefix) ==
    /\ Len(prefix) <= Len(s)
    /\ SubSeq(s, 1, Len(prefix)) = prefix

\* str.rfind('.') as a 1-based index, 0 when there is no dot
RFindDot(s) ==
    LET dots == { i \in 1..Len(s) : CharAt(s, i) = "." }
    IN  IF dots = {} THEN 0 ELSE CHOOSE i \in dots : \A j \in dots : j <= i

\* PurePath.suffix: the last dot and what follows it, unless the dot is the
\* first or the last character of the name
suffix(name) ==
    LET i == RFindDot(name)
    IN  IF 1 < i /\ i < Len(name) THEN SubSeq(name, i, Len(name)) ELSE ""

----------------------------------------------------------------------------
(* The fixed sets of the program *)

EXCLUDE_DIRS ==
    { ".git", ".dart_tool", ".idea", "build", "node_modules",
      "__pycache__", ".venv", "venv", ".gradle", ".pub-cache",
      "coverage", ".flutter-plugins", "android", "ios", "linux",
      "macos", "windows", "ephemeral" }

EXCLUDE_FILES ==
    { ".DS_Store", "Thumbs.db", ".flutter-plugins",
      ".flutter-plugins-dependencies", "pubspec.lock",
      ".packages", ".metadata" }

BINARY_EXTENSIONS == { ".pyc", ".pyo", ".class", ".o", ".so", ".dylib", ".exe" }

LINE_COUNT_EXTENSIONS ==
    { ".dart", ".py", ".js", ".ts", ".html", ".css", ".scss",
      ".json", ".yaml", ".yml", ".md", ".txt", ".sh", ".xml",
      ".gradle", ".toml", ".mojo" }

LINE_COUNT_FILES ==
    { "Makefile", "Dockerfile", "CLAUDE.md", "README.md",
      "pubspec.yaml", "analysis_options.yaml" }

\* FILE_ICONS: extension -> code point of the icon
FILE_ICONS ==
    [ e \in { ".dart", ".py", ".mojo", ".js", ".ts", ".html", ".css", ".scss",
              ".json", ".yaml", ".yml", ".md", ".sh", ".xml",
              ".svg", ".png", ".jpg", ".gif" } |->
        CASE e = ".dart" -> 127919
          [] e = ".py" -> 128013
          [] e = ".mojo" -> 128293
          [] e \in { ".js", ".ts", ".xml" } -> 128196
          [] e = ".html" -> 127760
          [] e \in { ".css", ".scss" } -> 127912
          [] e \in { ".json", ".yaml", ".yml" } -> 128203
          [] e = ".md" -> 128221
          [] e = ".sh" -> 9000
          [] OTHER -> 128444 ]

\* the default icon of get_file_icon (page)
DefaultIcon == 128196

----------------------------------------------------------------------------
(* Exclusion and line-count policies *)

\* faulty variant: only the denylist excludes a directory, hidden names do not
should_exclude_dir_denylist_only(name) == name \in EXCLUDE_DIRS

should_exclude_dir(name) == name \in EXCLUDE_DIRS \/ startswith(name, ".")

should_exclude_file(name) ==
    \/ name \in EXCLUDE_FILES
    \/ lower(suffix(name)) \in BINARY_EXTENSIONS

should_count_lines(name) ==
    \/ name \in LINE_COUNT_FILES
    \/ lower(suffix(name)) \in LINE_COUNT_EXTENSIONS

get_file_icon(name) ==
    LET ext == lower(suffix(name))
    IN  IF ext \in DOMAIN FILE_ICONS THEN FILE_ICONS[ext] ELSE DefaultIcon

----------------------------------------------------------------------------
(* The file system under the scan root *)

\* An entry is [kind, mode, data, pos]:
\*   kind "file": data is the content; mode "noread" is a file without any
\*                permission (mode 000): open() fails, for reading and for
\*                writing; mode "nostat" makes stat() fail after is_file()
\*                succeeded;
\*   kind "dir":  mode "nolist" is a directory without any permission (mode
\*                000): iterdir() fails and nothing below it can be reached
\*                or created;
\*   kind "other": neither a regular file nor a directory: a FIFO;
\*   pos: the place of the entry in the listing of its directory, 1 for the
\*        entry the platform lists first.
File(data, mode) == [kind |-> "file", mode |-> mode, data |-> data, pos |-> 1]
Dir(mode) == [kind |-> "dir", mode |-> mode, data |-> "", pos |-> 1]
Other == [kind |-> "other", mode |-> "ok", data |-> "", pos |-> 1]

\* an entry at place k of its directory's listing
At(entry, k) == [entry EXCEPT !.pos = k]

\* what is at path p: the kind of its entry, "absent" without one
Kind(f, p) == IF p \in DOMAIN f THEN f[p].kind ELSE "absent"

\* a sequence without its last element
Front(s) == SubSeq(s, 1, Len(s) - 1)

\* Path.parent of a path under the scan root
parent(p) == Front(p)

\* the paths of the entries in directory p
Children(f, p) == { r \in DOMAIN f : Len(r) > 0 /\ parent(r) = p }

\* the names listed in directory p
Listing(f, p) == { q[Len(q)] : q \in Children(f, p) }

\* a directory above p grants no permission: p cannot be reached
Denied(f, p) ==
    \E n \in 0..(Len(p) - 1) :
        /\ Kind(f, SubSeq(p, 1, n)) = "dir"
        /\ f[SubSeq(p, 1, n)].mode = "nolist"

\* the outcome of a call that answers or raises: its value, or the exception
Returns(v) == [raised |-> FALSE, value |-> v]
Throws == [raised |-> TRUE]

\* Path.exists(), Path.is_file(), Path.is_dir(): the stat of a path that
\* cannot be reached raises PermissionError, which the three do not catch;
\* a path that is absent answers False
exists(f, p) == IF Denied(f, p) THEN Throws ELSE Returns(Kind(f, p) # "absent")
is_file(f, p) == IF Denied(f, p) THEN Throws ELSE Returns(Kind(f, p) = "file")
is_dir(f, p) == IF Denied(f, p) THEN Throws ELSE Returns(Kind(f, p) = "dir")

\* the names of directory p in the order the platform lists them
\* (os.listdir): any order, kept in the entries' places; the places of the
\* entries of a directory differ
Listed(f, p) ==
    LET names == Listing(f, p)
        before(n) == { m \in names : f[Append(p, m)].pos < f[Append(p, n)].pos }
    IN  [ i \in 1..Cardinality(names) |->
            CHOOSE n \in names : Cardinality(before(n)) = i - 1 ]

\* Path.iterdir(): raises when p cannot be reached, is no directory, or is a
\* directory that grants no permission
iterdir(f, p) ==
    IF Denied(f, p) \/ Kind(f, p) # "dir" THEN Throws
    ELSE IF f[p].mode = "nolist" THEN Throws
    ELSE Returns(Listed(f, p))

\* the file system with a new entry at path p, listed at place k of its
\* directory (at the end when k is beyond it); the entries listed from there
\* on move one place down
Insert(f, p, entry, k) ==
    LET n == Cardinality(Children(f, parent(p))) + 1
        at == IF k < n THEN k ELSE n
    IN  [ q \in DOMAIN f \cup {p} |->
            IF q = p THEN At(entry, at)
            ELSE IF q \in Children(f, parent(p)) /\ f[q].pos >= at
            THEN At(f[q], f[q].pos + 1)
            ELSE f[q] ]

\* the bytes that decode as UTF-8 with errors='ignore'
decode(data) ==
    LET keep == { i \in 1..Len(data) : CharAt(data, i) # "~" }
        RECURSIVE pick(_)
        pick(i) == IF i > Len(data) THEN ""
                   ELSE (IF i \in keep THEN CharAt(data, i) ELSE "") \o pick(i + 1)
    IN  IF keep = 1..Len(data) THEN data ELSE pick(1)

\* the indices of the bytes "\n" and "\r" of a text
Breaks(text) == { j \in 1..Len(text) : CharAt(text, j) \in {"\n", "\r"} }

\* faulty variant: "\r\n" ends two lines, one at each byte
LineEndSplitsCRLF(text, breaks, i) ==
    LET ends == { j \in breaks : j >= i }
        j == CHOOSE j \in ends : \A k \in ends : j <= k
    IN  IF ends = {} THEN Len(text) + 1 ELSE j + 1

\* the index after the line of text that starts at index i, under universal
\* newlines: a line ends after "\n", after "\r\n", after a lone "\r", or
\* at the end of the text
LineEnd(text, breaks, i) ==
    LET ends == { j \in breaks : j >= i }
        j == CHOOSE j \in ends : \A k \in ends : j <= k
    IN  IF ends = {} THEN Len(text) + 1
        ELSE IF CharAt(text, j) = "\r" /\ j + 1 \in breaks /\ CharAt(text, j + 1) = "\n"
             THEN j + 2
             ELSE j + 1

RECURSIVE LinesFrom(_, _, _)
\* sum(1 for _ in f): one for every line the text file yields from index i
LinesFrom(text, breaks, i) ==
    IF i > Len(text) THEN 0 ELSE 1 + LinesFrom(text, breaks, LineEnd(text, breaks, i))

\* the number of lines a text file object yields
LineCount(text) == LinesFrom(text, Breaks(text), 1)

\* open(file_path, 'r') raises: the path cannot be reached, nothing is
\* there, a directory is there, or the file grants no permission
OpenFails(f, p) ==
    \/ Denied(f, p)
    \/ Kind(f, p) \in {"absent", "dir"}
    \/ f[p].mode = "noread"

\* a call that does not return: open(file_path, 'r') of a FIFO waits for a
\* writer
Hangs == [raised |-> FALSE, blocked |-> TRUE]

\* faulty variant: the count is the number of "\n" bytes
count_lines_newlines_only(f, p) ==
    IF OpenFails(f, p) THEN Returns(0)
    ELSE IF Kind(f, p) = "other" THEN Hangs
    ELSE Returns(Cardinality({ j \in 1..Len(f[p].data) : CharAt(f[p].data, j) = "\n" }))

\* count_lines(file_path): 0 when the file cannot be opened or read; the call
\* does not return on a FIFO; else the number of lines of the decoded text
count_lines(f, p) ==
    IF OpenFails(f, p) THEN Returns(0)
    ELSE IF Kind(f, p) = "other" THEN Hangs
    ELSE Returns(LineCount(decode(f[p].data)))

\* path.stat().st_size, 0 on OSError: the path cannot be reached, nothing is
\* there, or the stat of the file fails
st_size(f, p) ==
    IF Denied(f, p) \/ Kind(f, p) = "absent" THEN 0
    ELSE IF f[p].mode = "nostat" THEN 0
    ELSE Len(f[p].data)

----------------------------------------------------------------------------
(* build_tree *)

None == [type |-> "none"]

\* the value that stands for an exception leaving the call
Raised == [type |-> "raised"]

\* Path.name of a path under the scan root
NameOf(root, p) == IF p = <<>> THEN root ELSE p[Len(p)]

RECURSIVE JoinPath(_)
JoinPath(names) ==
    IF Len(names) = 1 THEN names[1]
    ELSE JoinPath(Front(names)) \o "/" \o names[Len(names)]

\* str(path.relative_to(root_path.parent))
rel_path(root, p) == JoinPath(<<root>> \o p)

\* faulty variant: the key compares the names as they are, upper case first
SortKeyCaseSensitive(f, p, name) == <<is_file(f, Append(p, name)).value, name>>

\* the sort key of a child: (p.is_file(), p.name.lower())
SortKey(f, p, name) == <<is_file(f, Append(p, name)).value, lower(name)>>

\* k1 < k2 for the tuples (bool, str): False < True, then the strings
KeyLess(k1, k2) ==
    \/ k1[1] = FALSE /\ k2[1] = TRUE
    \/ k1[1] = k2[1] /\ StrLess(k1[2], k2[2])

RECURSIVE Ordered(_, _, _)
\* a stable sort of the names by their keys
Ordered(f, p, names) ==
    IF names = <<>> THEN <<>>
    ELSE LET rest == Ordered(f, p, Front(names))
             x == names[Len(names)]
             before == { i \in 1..Len(rest) :
                           ~KeyLess(SortKey(f, p, x), SortKey(f, p, rest[i])) }
             n == Cardinality(before)
         IN  SubSeq(rest, 1, n) \o <<x>> \o SubSeq(rest, n + 1, Len(rest))

\* sorted(path.iterdir(), key=...): raises when the listing raises or the
\* key of a name does
sorted(f, p, listed) ==
    IF listed.raised THEN Throws
    ELSE IF \E i \in 1..Len(listed.value) :
                is_file(f, Append(p, listed.value[i])).raised
    THEN Throws
    ELSE Returns(Ordered(f, p, listed.value))

FileNode(f, root, p) ==
    LET name == NameOf(root, p)
        node == [ name |-> name,
                  type |-> "file",
                  path |-> rel_path(root, p),
                  size |-> st_size(f, p),
                  extension |-> lower(suffix(name)),
                  icon |-> get_file_icon(name) ]
    IN  IF should_count_lines(name)
        THEN node @@ [lines |-> count_lines(f, p).value]
        ELSE node

\* faulty variant: a directory without surviving children still gets a node
DirNodeKeepsEmpty(name, path, children) ==
    [ name |-> name, type |-> "directory", path |-> path, children |-> children ]

\* the directory node of the children that survived; only non-empty
\* directories are included
DirNode(name, path, children) ==
    IF children = <<>> THEN None
    ELSE [ name |-> name,
           type |-> "directory",
           path |-> path,
           children |-> children ]

RECURSIVE build_tree(_, _, _)
\* build_tree(path, root_path): a node, None, or Raised when a listing fails
build_tree(f, root, p) ==
    LET name == NameOf(root, p)
        file == is_file(f, p)
    IN
    IF file.raised THEN Raised
    ELSE IF file.value THEN
        IF should_exclude_file(name) THEN None ELSE FileNode(f, root, p)
    ELSE IF is_dir(f, p).value THEN
        IF should_exclude_dir(name) THEN None
        ELSE
            LET listing == sorted(f, p, iterdir(f, p))
                order == listing.value
                built == [i \in 1..Len(order) |-> build_tree(f, root, Append(p, order[i]))]
                children == SelectSeq(built, LAMBDA n : n # None)
            IN  IF listing.raised THEN Raised
                ELSE IF \E i \in 1..Len(built) : built[i] = Raised THEN Raised
                ELSE DirNode(name, rel_path(root, p), children)
    ELSE None

----------------------------------------------------------------------------
(* calculate_totals *)

get(node, key, default) == IF key \in DOMAIN node THEN node[key] ELSE default

RECURSIVE traverse(_, _)
\* traverse(node) with the totals so far; returns the totals after the call
traverse(node, totals) ==
    IF node.type = "file" THEN
        [ totals EXCEPT !.files = @ + 1,
                        !.size = @ + get(node, "size", 0),
                        !.lines = @ + get(node, "lines", 0) ]
    ELSE IF node.type = "directory" THEN
        LET children == get(node, "children", <<>>)
            RECURSIVE each(_, _)
            each(i, acc) ==
                IF i > Len(children) THEN acc
                ELSE each(i + 1, traverse(children[i], acc))
        IN  each(1, [totals EXCEPT !.directories = @ + 1])
    ELSE totals

\* faulty variant: the root directory is left out of the directory count
calculate_totals_below_root(tree) ==
    LET totals == traverse(tree, [files |-> 0, directories |-> 0, lines |-> 0, size |-> 0])
    IN  IF tree.type = "directory"
        THEN [totals EXCEPT !.directories = @ - 1]
        ELSE totals

calculate_totals(tree) ==
    traverse(tree, [files |-> 0, directories |-> 0, lines |-> 0, size |-> 0])

----------------------------------------------------------------------------
(* json.dump(output, f, indent=2, ensure_ascii=False) *)

Digits == "0123456789"

RECURSIVE IntStr(_)
\* the decimal digits of a natural number
IntStr(n) ==
    IF n < 10 THEN CharAt(Digits, n + 1)
    ELSE IntStr(n \div 10) \o CharAt(Digits, (n % 10) + 1)

RECURSIVE Indent(_)
\* the indentation of nesting level n: two spaces per level
Indent(n) == IF n = 0 THEN "" ELSE "  " \o Indent(n - 1)

\* the characters that json.dump writes with a backslash
JsonEscaped == { "\"", "\\", "\n", "\r", "\t", "\f" }

\* a character of a string as json.dump writes it with ensure_ascii=False
JsonChar(c) ==
    IF c = "\"" THEN "\\\""
    ELSE IF c = "\\" THEN "\\\\"
    ELSE IF c = "\n" THEN "\\n"
    ELSE IF c = "\r" THEN "\\r"
    ELSE IF c = "\t" THEN "\\t"
    ELSE IF c = "\f" THEN "\\f"
    ELSE c

RECURSIVE JsonEscape(_)
\* the characters of a string one after the other, each as json.dump writes
\* it
JsonEscape(s) ==
    LET special == { i \in 1..Len(s) : CharAt(s, i) \in JsonEscaped }
    IN  IF special = {} THEN s
        ELSE LET i == CHOOSE i \in special : \A j \in special : i <= j
             IN  SubSeq(s, 1, i - 1) \o JsonChar(CharAt(s, i))
                 \o JsonEscape(SubSeq(s, i + 1, Len(s)))

JsonString(s) == "\"" \o JsonEscape(s) \o "\""

\* an icon written as UTF-8, "^" standing for each of its bytes
JsonIcon(cp) ==
    "\"" \o (IF cp < 128 THEN "^" ELSE IF cp < 2048 THEN "^^"
             ELSE IF cp < 65536 THEN "^^^" ELSE "^^^^") \o "\""

\* one "key": value member at nesting level n, without its line break
Member(n, key, text) == Indent(n) \o JsonString(key) \o ": " \o text

RECURSIVE JsonNode(_, _)
\* a node of the tree, opened at nesting level n
JsonNode(node, n) ==
    LET head == "{\n" \o Member(n + 1, "name", JsonString(node.name)) \o ",\n"
                      \o Member(n + 1, "type", JsonString(node.type)) \o ",\n"
                      \o Member(n + 1, "path", JsonString(node.path)) \o ",\n"
    IN  IF node.type = "file" THEN
            head \o Member(n + 1, "size", IntStr(node.size)) \o ",\n"
                 \o Member(n + 1, "extension", JsonString(node.extension)) \o ",\n"
                 \o Member(n + 1, "icon", JsonIcon(node.icon))
                 \o (IF "lines" \in DOMAIN node
                     THEN ",\n" \o Member(n + 1, "lines", IntStr(node.lines))
                     ELSE "")
                 \o "\n" \o Indent(n) \o "}"
        ELSE
            LET RECURSIVE items(_)
                items(i) ==
                    Indent(n + 2) \o JsonNode(node.children[i], n + 2)
                    \o (IF i < Len(node.children) THEN ",\n" \o items(i + 1) ELSE "")
                list == IF node.children = <<>> THEN "[]"
                        ELSE "[\n" \o items(1) \o "\n" \o Indent(n + 1) \o "]"
            IN  head \o Member(n + 1, "children", list) \o "\n" \o Indent(n) \o "}"

JsonTotals(totals, n) ==
    "{\n" \o Member(n + 1, "files", IntStr(totals.files)) \o ",\n"
          \o Member(n + 1, "directories", IntStr(totals.directories)) \o ",\n"
          \o Member(n + 1, "lines", IntStr(totals.lines)) \o ",\n"
          \o Member(n + 1, "size", IntStr(totals.size)) \o "\n"
          \o Indent(n) \o "}"

\* the text of the report file
JsonDump(output) ==
    "{\n" \o Member(1, "generated_at", JsonString(output.generated_at)) \o ",\n"
          \o Member(1, "project_name", JsonString(output.project_name)) \o ",\n"
          \o Member(1, "root", JsonString(output.root)) \o ",\n"
          \o Member(1, "totals", JsonTotals(output.totals, 1)) \o ",\n"
          \o Member(1, "tree", JsonNode(output.tree, 1)) \o "\n}"

----------------------------------------------------------------------------
(* main *)

\* an option that is not given on the command line (None); Given(s) is an
\* option given with the string s
NoArg == <<>>
Given(s) == <<s>>

\* the truth value of an option: None and the empty string are false
Truthy(arg) == arg # NoArg /\ arg[1] # ""

\* the directory that holds the scan root
RootParent == "/srv"

\* the default output path below the root: assets/data/source-tree.json
DefaultOutput == <<"assets", "data", "source-tree.json">>

RECURSIVE Parts(_, _, _)
\* the components of a path string from index i on, part being the component
\* read so far: "/" separates them, empty components and "." are dropped
Parts(s, i, part) ==
    LET done == IF part \in {"", "."} THEN <<>> ELSE <<part>>
    IN  IF i > Len(s) THEN done
        ELSE IF CharAt(s, i) = "/" THEN done \o Parts(s, i + 1, "")
        ELSE Parts(s, i + 1, part \o CharAt(s, i))

\* Path(s): whether the path is absolute, and its components
Path(s) == [absolute |-> startswith(s, "/"), parts |-> Parts(s, 1, "")]

\* the components from "/" of the place a path names in a process whose
\* working directory is dir; the path holds no ".."
Absolute(dir, path) == IF path.absolute THEN path.parts ELSE dir \o path.parts

RECURSIVE Collapse(_, _)
\* the components without "..": each ".." leaves the directory reached so
\* far (seen) for the one above it, "/" for itself
Collapse(parts, seen) ==
    IF parts = <<>> THEN seen
    ELSE IF Head(parts) = ".." THEN Collapse(Tail(parts), Front(seen))
    ELSE Collapse(Tail(parts), Append(seen, Head(parts)))

\* Path.resolve() in a process whose working directory is dir, no component
\* being a symbolic link
resolve(dir, path) == Collapse(Absolute(dir, path), <<>>)

\* the components of RootParent
RootDir == Path(RootParent).parts

\* root_path, the directory root in RootParent
RootPath(root) == Append(RootDir, root)

\* faulty variant: --output is ignored, the report always goes below the root
output_path_default_only(dir, root, args) == RootPath(root) \o DefaultOutput

\* output_path: Path(args.output) when --output is given and not empty, else
\* the default path below the root
output_path(dir, root, args) ==
    IF Truthy(args.output)
    THEN Absolute(dir, Path(args.output[1]))
    ELSE RootPath(root) \o DefaultOutput

\* where an absolute path lies: at or below the scan root (p is the path
\* from the root) or outside it (p is the path from "/")
Place(root, abs) ==
    LET n == Len(RootPath(root))
    IN  IF Len(abs) >= n /\ SubSeq(abs, 1, n) = RootPath(root)
        THEN [under |-> TRUE, p |-> SubSeq(abs, n + 1, Len(abs))]
        ELSE [under |-> FALSE, p |-> abs]

\* the result of a call that changes a directory tree: the tree after it,
\* whether the call raised, and whether it blocks for ever
Done(f) == [raised |-> FALSE, blocked |-> FALSE, fs |-> f]
Fail(f) == [raised |-> TRUE, blocked |-> FALSE, fs |-> f]
Blocked(f) == [raised |-> FALSE, blocked |-> TRUE, fs |-> f]

RECURSIVE mkdir(_, _, _)
\* Path.mkdir(parents=True, exist_ok=True) of the directory p; slot is the
\* place at which the platform lists a directory it creates
mkdir(f, p, slot) ==
    IF Denied(f, p) THEN Fail(f)
    ELSE IF Kind(f, p) # "absent" THEN (IF Kind(f, p) = "dir" THEN Done(f) ELSE Fail(f))
    ELSE IF Kind(f, parent(p)) # "absent" THEN
        (IF Kind(f, parent(p)) = "dir"
         THEN Done(Insert(f, p, Dir("ok"), slot)) ELSE Fail(f))
    ELSE LET up == mkdir(f, parent(p), slot)
         IN  IF up.raised THEN up ELSE Done(Insert(up.fs, p, Dir("ok"), slot))

\* open(output_path, 'w') and the write of the text; slot is the place at
\* which the platform lists the file when open creates it
write_text(f, p, text, slot) ==
    IF Denied(f, p) THEN Fail(f)
    ELSE IF Kind(f, p) = "dir" THEN Fail(f)
    ELSE IF Kind(f, p) = "file" THEN
        (IF f[p].mode = "noread" THEN Fail(f)
         ELSE Done([f EXCEPT ![p] = At(File(text, f[p].mode), f[p].pos)]))
    ELSE IF Kind(f, p) = "other" THEN Blocked(f)
    ELSE IF Kind(f, parent(p)) = "dir"
    THEN Done(Insert(f, p, File(text, "ok"), slot))
    ELSE Fail(f)

\* the result of a call on the tree below the root (r), next to the
\* untouched directories outside the root
Within(r, o) ==
    [raised |-> r.raised, blocked |-> r.blocked, fs |-> r.fs, outside |-> o]

\* the result of a call on the directories outside the root (r), next to the
\* untouched tree below the root
Without(f, r) ==
    [raised |-> r.raised, blocked |-> r.blocked, fs |-> f, outside |-> r.fs]

\* output_path.parent.mkdir(parents=True, exist_ok=True): f is the tree below
\* the root, o the directories outside it, at the place of the directory
MakeParents(f, o, at, slot) ==
    IF at.under THEN Within(mkdir(f, at.p, slot), o)
    ELSE Without(f, mkdir(o, at.p, 1))

\* with open(output_path, 'w') ...: json.dump; at is the place of the file
WriteReport(f, o, at, text, slot) ==
    IF at.under THEN Within(write_text(f, at.p, text, slot), o)
    ELSE Without(f, write_text(o, at.p, text, 1))

Unset == [type |-> "unset"]

\* the record of a run that ends in an exception before a tree is built; seen
\* is the directory tree as the scan finds it
RunRecord(args, seen) ==
    [ args |-> args, status |-> 1, exception |-> TRUE,
      tree |-> Unset, totals |-> Unset, written |-> FALSE, seen |-> seen ]

\* the dictionary that main dumps
Output(root, args, now, tree, totals) ==
    [ generated_at |-> now,
      project_name |-> IF Truthy(args.project_name)
                       THEN args.project_name[1] ELSE root,
      root |-> RootParent \o "/" \o root,
      totals |-> totals,
      tree |-> tree ]

\* after the report is written (wrote): return 0, or the exception of open;
\* the run does not end while open blocks
Written(wrote, rec, tree, totals) ==
    IF wrote.blocked
    THEN [fs |-> wrote.fs, outside |-> wrote.outside, run |-> rec, ended |-> FALSE]
    ELSE IF wrote.raised
    THEN [fs |-> wrote.fs, outside |-> wrote.outside, ended |-> TRUE,
          run |-> [rec EXCEPT !.tree = tree, !.totals = totals]]
    ELSE [fs |-> wrote.fs, outside |-> wrote.outside, ended |-> TRUE,
          run |-> [ rec EXCEPT !.status = 0, !.exception = FALSE,
                               !.tree = tree, !.totals = totals,
                               !.written = TRUE ]]

\* with the totals of the tree: build the output and write it at the place
\* of output_path
Reported(made, rec, root, args, now, at, slot, tree, totals) ==
    Written(WriteReport(made.fs, made.outside, at,
                        JsonDump(Output(root, args, now, tree, totals)), slot),
            rec, tree, totals)

\* with the result of build_tree: an exception leaves main, no tree returns 1
Scanned(made, rec, root, args, now, at, slot, tree) ==
    IF tree = Raised
    THEN [fs |-> made.fs, outside |-> made.outside, ended |-> TRUE,
          run |-> [rec EXCEPT !.tree = Raised]]
    ELSE IF tree = None
    THEN [fs |-> made.fs, outside |-> made.outside, ended |-> TRUE,
          run |-> [rec EXCEPT !.exception = FALSE, !.tree = None]]
    ELSE Reported(made, rec, root, args, now, at, slot, tree, calculate_totals(tree))

\* with the output directory made (made): scan the root
Prepared(made, root, args, now, at, slot) ==
    IF made.raised
    THEN [fs |-> made.fs, outside |-> made.outside, ended |-> TRUE,
          run |-> RunRecord(args, made.fs)]
    ELSE Scanned(made, RunRecord(args, made.fs), root, args, now, at, slot,
                 build_tree(made.fs, root, <<>>))

\* with output_path (out): make its directory, then go on
Located(f, o, root, args, now, out, slot) ==
    Prepared(MakeParents(f, o, Place(root, parent(out)), slot),
             root, args, now, Place(root, out), slot)

\* what a run of main leaves behind: the tree below the root (f) and the
\* directories outside it (o) after it, and its record
\*   status: the exit status; exception: an exception ended the run;
\*   tree: what build_tree returned (Unset when it was not reached);
\*   totals and written: the totals and whether the report was written;
\*   seen: the tree below the root as build_tree found it;
\* dir is the working directory; slot is the place at which the platform
\* lists what the run creates below the root
RunOf(f, o, dir, root, args, now, slot) ==
    Located(f, o, root, args, now, output_path(dir, root, args), slot)

----------------------------------------------------------------------------
(* find_project_root *)

markers == <<"pubspec.yaml", "package.json", "pyproject.toml", ".git">>

RECURSIVE probe(_, _, _)
\* the for loop over the markers from the i-th on: whether (current /
\* marker).exists() answers True for one of them, raising when one raises
probe(o, current, i) ==
    IF i > Len(markers) THEN Returns(FALSE)
    ELSE LET found == exists(o, Append(current, markers[i]))
         IN  IF found.raised THEN Throws
             ELSE IF found.value THEN Returns(TRUE)
             ELSE probe(o, current, i + 1)

RECURSIVE search(_, _, _)
\* the while loop: current is the directory the loop is about to test
search(o, current, start) ==
    IF current = parent(current) THEN Returns(start)
    ELSE LET marked == probe(o, current, 1)
         IN  IF marked.raised THEN Throws
             ELSE IF marked.value THEN Returns(current)
             ELSE search(o, parent(current), start)

\* find_project_root(start_path) over the directories o, paths from "/"
find_project_root(o, start) == search(o, start, start)

\* main, lines 207-211: root_path is Path(args.root).resolve() when --root is
\* given and not empty, else what find_project_root finds from the working
\* directory dir
root_path(o, dir, root) ==
    IF Truthy(root) THEN Returns(resolve(dir, Path(root[1])))
    ELSE find_project_root(o, dir)

----------------------------------------------------------------------------
(* Bounds and the inputs the environment draws from *)

MaxEntries == 3
MaxLen == 4
MaxChain == 3

\* what the environment puts into a directory: a name and the entry under it
Catalogue ==
    { <<"build", Dir("ok")>>, <<".cache", Dir("ok")>>,
      <<"Lib", Dir("ok")>>, <<"Lib", Dir("nolist")>>, <<"lib", Dir("ok")>>,
      <<"B.PY", File("x\ny", "ok")>>, <<"A.py", File("xx", "ok")>>,
      <<"a.py", File("a\r\nb\n", "ok")>>, <<"a.py", File("x\ny", "noread")>>,
      <<"Makefile", File("all:\n", "nostat")>>,
      <<"logo.png", File("~~", "ok")>>, <<"build", File("x", "ok")>>,
      <<"x.O", File("~", "ok")>>, <<".metadata", File("", "ok")>>,
      <<"notes", Other>> }

\* names of the scan root
RootNames == { "warchief", "build" }

\* datetime.now().isoformat() at the successive runs: without microseconds
\* when they are zero
Clock == << "2026-10-30T08:03:00", "2026-10-30T08:03:01.250000" >>

\* what the environment puts into RootParent, next to the scan root
OutsideCatalogue ==
    { <<"out", File("x", "ok")>>, <<"out", Dir("nolist")>> }

\* the --output and --project-name arguments of a run over the root: none,
\* empty strings, a report outside the root, a report in the root, and a
\* report in an excluded directory below the root
Args(root) ==
    { [output |-> NoArg, project_name |-> NoArg],
      [output |-> Given(""), project_name |-> Given("")],
      [output |-> Given(RootParent \o "/out/tree.json"), project_name |-> NoArg],
      [output |-> Given(RootParent \o "/" \o root \o "/report.json"),
       project_name |-> Given("W \"2\"")],
      [output |-> Given(RootParent \o "/" \o root \o "/build/tree.json"),
       project_name |-> NoArg] }

Bytes == { "x", "\n", "\r", "~" }

RECURSIVE Strings(_)
\* the contents of at most n bytes
Strings(n) ==
    IF n = 0 THEN {""}
    ELSE LET S == Strings(n - 1) IN S \cup { s \o b : s \in S, b \in Bytes }

\* the working directory n levels below "/"
WorkDir(n) == [ i \in 1..n |-> "d" \o IntStr(i) ]

\* a directory and the directories above it, "/" (the empty path) included
Chain(path) == { SubSeq(path, 1, n) : n \in 0..Len(path) }

----------------------------------------------------------------------------
(* The state machine *)

\* main before line 207: no root resolved yet
Unresolved == [done |-> FALSE, root |-> NoArg, path |-> Returns(<<>>)]

Idle ==
    /\ cwd = <<>>
    /\ resolved = Unresolved

\* the directories outside the root: "/" and RootParent
Outside == (<<>> :> Dir("ok")) @@ (RootDir :> Dir("ok"))

Init ==
    /\ fs = (<<>> :> Dir("ok"))
    /\ outside = Outside
    /\ rootName \in RootNames
    /\ runs = <<>>
    /\ Idle

\* the places at which the platform may list one more entry of directory p
Slots(f, p) == 1..(Cardinality(Children(f, p)) + 1)

\* the entries the environment has added, below the root and outside it
Added == Cardinality(DOMAIN fs) - 1 + Cardinality(DOMAIN outside \ DOMAIN Outside)

\* the environment adds an entry below an existing directory; the platform
\* lists it at place k
Create(dir, name, entry, k) ==
    /\ Kind(fs, dir) = "dir"
    /\ Kind(fs, Append(dir, name)) = "absent"
    /\ fs' = Insert(fs, Append(dir, name), entry, k)
    /\ UNCHANGED <<outside, rootName, runs, cwd, resolved>>

\* before the first run the environment fills the tree below the root
CreateEntry ==
    /\ runs = <<>>
    /\ Added < MaxEntries
    /\ \E dir \in DOMAIN fs, c \in Catalogue :
           \E k \in Slots(fs, dir) : Create(dir, c[1], c[2], k)

\* before the first run the environment adds an entry to RootParent, next to
\* the scan root
CreateOutside ==
    /\ runs = <<>>
    /\ Added < MaxEntries
    /\ \E c \in OutsideCatalogue :
        /\ Kind(outside, Append(RootDir, c[1])) = "absent"
        /\ outside' = Insert(outside, Append(RootDir, c[1]), c[2], 1)
        /\ UNCHANGED <<fs, rootName, runs, cwd, resolved>>

\* the places at which the platform may list what a run creates below the
\* root: the first directory or file of the output path that is missing;
\* what the run creates below it is alone in its directory
RunSlots(f, at) ==
    LET missing == { n \in 1..Len(at.p) : Kind(f, SubSeq(at.p, 1, n)) = "absent" }
        first == CHOOSE n \in missing : \A m \in missing : n <= m
    IN  IF at.under /\ missing # {}
        THEN Slots(f, SubSeq(at.p, 1, first - 1))
        ELSE {1}

\* one run of main over the scan root; a second run repeats the command
\* line of the first
Main ==
    /\ Len(runs) < Len(Clock)
    /\ \E args \in Args(rootName) :
         /\ runs # <<>> => args = runs[1].args
         /\ \E slot \in RunSlots(fs, Place(rootName, output_path(cwd, rootName, args))) :
              \E r \in {RunOf(fs, outside, cwd, rootName, args,
                              Clock[Len(runs) + 1], slot)} :
                  /\ r.ended
                  /\ fs' = r.fs
                  /\ outside' = r.outside
                  /\ runs' = Append(runs, r.run)
    /\ UNCHANGED <<rootName, cwd, resolved>>

Next == CreateEntry \/ CreateOutside \/ Main

Spec == Init /\ [][Next]_vars

----------------------------------------------------------------------------
(* Line counting: one file of arbitrary content under the root *)

InitLines ==
    /\ \E data \in Strings(MaxLen), mode \in {"ok", "noread"} :
           fs = Insert(<<>> :> Dir("ok"), <<"notes.txt">>, File(data, mode), 1)
    /\ outside = Outside
    /\ rootName = "warchief"
    /\ runs = <<>>
    /\ Idle

NextLines == Main

SpecLines == InitLines /\ [][NextLines]_vars

----------------------------------------------------------------------------
(* The scenario: src/main.py (3 lines), README.md (1 line), .git/config,   *)
(* build/out.o                                                             *)

ThreeLines == { "a\nb\nc\n", "a\nb\nc", "x\r\ny\r\nz" }
OneLine == { "# W\n", "x" }
AnyData == { "~", "x\ny\nz\n" }

\* place[i] is the place of the i-th of src, README.md, .git and build in
\* the listing of the root
InitScenario ==
    /\ \E main \in ThreeLines, readme \in OneLine, config \in AnyData, obj \in AnyData :
         \E place \in Permutations(1..4) :
           fs = (<<>> :> Dir("ok"))
                @@ (<<"src">> :> At(Dir("ok"), place[1]))
                @@ (<<"src", "main.py">> :> File(main, "ok"))
                @@ (<<"README.md">> :> At(File(readme, "ok"), place[2]))
                @@ (<<".git">> :> At(Dir("ok"), place[3]))
                @@ (<<".git", "config">> :> File(config, "ok"))
                @@ (<<"build">> :> At(Dir("ok"), place[4]))
                @@ (<<"build", "out.o">> :> File(obj, "ok"))
    /\ outside = Outside
    /\ rootName = "warchief"
    /\ runs = <<>>
    /\ Idle

NextScenario == Main

SpecScenario == InitScenario /\ [][NextScenario]_vars

----------------------------------------------------------------------------
(* Root resolution: the working directory and the directories above it *)

\* names a directory of the chain may hold
ChainNames == { ".git", "package.json", "README.md" }

\* the directories of the chain with the files names[d] in directory d; the
\* directory locked grants no permission, "/" always does
ChainTree(dirs, names, locked) ==
    [ p \in dirs \cup UNION { { Append(d, m) : m \in names[d] } : d \in dirs } |->
        IF p \in dirs
        THEN Dir(IF p = locked /\ p # <<>> THEN "nolist" ELSE "ok")
        ELSE File("", "ok") ]

InitRoot ==
    /\ fs = (<<>> :> Dir("ok"))
    /\ rootName = "warchief"
    /\ runs = <<>>
    /\ \E n \in 0..MaxChain : cwd = WorkDir(n)
    /\ \E names \in [Chain(cwd) -> SUBSET ChainNames], locked \in Chain(cwd) :
           outside = ChainTree(Chain(cwd), names, locked)
    /\ resolved = Unresolved

\* the string of an absolute path
PathString(path) == IF path = <<>> THEN "/" ELSE "/" \o JoinPath(path)

\* the --root arguments of a run: none, the empty string, a directory of the
\* chain by its absolute path, and the directory above by a relative path
Roots ==
    {NoArg, Given(""), Given("..")} \cup { Given(PathString(d)) : d \in Chain(cwd) }

\* main, lines 207-211, in the working directory: root is the --root
\* argument
ResolveRoot ==
    \E root \in Roots :
        /\ ~resolved.done
        /\ resolved' = [ done |-> TRUE, root |-> root,
                         path |-> root_path(outside, cwd, root) ]
        /\ UNCHANGED <<fs, outside, rootName, runs, cwd>>

NextRoot == ResolveRoot

SpecRoot == InitRoot /\ [][NextRoot]_vars

----------------------------------------------------------------------------
(* What the claims speak of *)

RECURSIVE NodesOf(_)
\* the nodes of a tree
NodesOf(node) ==
    IF node.type = "directory"
    THEN {node} \cup UNION { NodesOf(node.children[i]) : i \in 1..Len(node.children) }
    ELSE {node}

FileNodes(tree) == { n \in NodesOf(tree) : n.type = "file" }
DirNodes(tree) == { n \in NodesOf(tree) : n.type = "directory" }

\* the runs whose build_tree returned a tree
HasTree(run) == run.tree.type \in {"file", "directory"}
TreeRuns == { i \in 1..Len(runs) : HasTree(runs[i]) }

RECURSIVE SumOf(_, _)
\* the sum of a field over a set of nodes, an absent field counting as 0
SumOf(nodes, key) ==
    IF nodes = {} THEN 0
    ELSE LET n == CHOOSE n \in nodes : TRUE
         IN  (IF key \in DOMAIN n THEN n[key] ELSE 0) + SumOf(nodes \ {n}, key)

\* q lies below p
Below(p, q) == Len(q) > Len(p) /\ SubSeq(q, 1, Len(p)) = p

DirExcluded(name) == name \in EXCLUDE_DIRS \/ CharAt(name, 1) = "."
FileExcluded(name) ==
    name \in EXCLUDE_FILES \/ lower(suffix(name)) \in BINARY_EXTENSIONS

\* the files below directory p that no exclusion rule removes: the file is
\* not excluded and no directory between p and the file is
KeptBelow(f, p) ==
    { q \in DOMAIN f :
        /\ Below(p, q)
        /\ f[q].kind = "file"
        /\ ~FileExcluded(q[Len(q)])
        /\ \A n \in (Len(p) + 1)..(Len(q) - 1) : ~DirExcluded(q[n]) }

\* the entries at or below an excluded directory
UnderExcluded(f, root) ==
    { q \in DOMAIN f :
        \E n \in 0..Len(q) :
            /\ f[SubSeq(q, 1, n)].kind = "dir"
            /\ DirExcluded(NameOf(root, SubSeq(q, 1, n))) }

PathsOf(nodes) == { n.path : n \in nodes }

\* the place of the report as the command line of a run names it: the
\* components of --output from "/", or of the default path below the root
ReportParts(args) ==
    IF Truthy(args.output) THEN Path(args.output[1]).parts
    ELSE RootPath(rootName) \o DefaultOutput

\* the report lies below the scan root, at the path p from the root
ReportBelowRoot(args, p) ==
    /\ p # <<>>
    /\ Place(rootName, ReportParts(args)) = [under |-> TRUE, p |-> p]

\* the report is an entry the scan keeps: it lies below the root, no
\* directory from the root down to it is excluded and its name is not
ReportKept(args) ==
    LET at == Place(rootName, ReportParts(args))
    IN  /\ at.under
        /\ at.p # <<>>
        /\ ~DirExcluded(rootName)
        /\ \A m \in 1..(Len(at.p) - 1) : ~DirExcluded(at.p[m])
        /\ ~FileExcluded(at.p[Len(at.p)])

----------------------------------------------------------------------------
(* C1 *)

\* C1: for every tree build_tree returns, the totals count its file nodes
\* and its directory nodes (the root included) and sum the size and the
\* lines fields of its file nodes, an absent field counting as 0.
C1_TotalsMatchTree ==
    \A i \in TreeRuns :
        LET run == runs[i] IN
        run.totals # Unset =>
            /\ run.totals.files = Cardinality(FileNodes(run.tree))
            /\ run.totals.directories = Cardinality(DirNodes(run.tree))
            /\ run.totals.size = SumOf(FileNodes(run.tree), "size")
            /\ run.totals.lines = SumOf(FileNodes(run.tree), "lines")

\* a tree with a nested directory, a file with lines and a file without
C1_Witness ==
    \E i \in TreeRuns :
        /\ Cardinality(DirNodes(runs[i].tree)) >= 2
        /\ \E n \in FileNodes(runs[i].tree) : "lines" \in DOMAIN n /\ n.lines > 0
        /\ \E n \in FileNodes(runs[i].tree) : "lines" \notin DOMAIN n /\ n.size > 0
        /\ runs[i].totals.directories >= 2

----------------------------------------------------------------------------
(* C3 *)

\* C3: a run ends with status 1 exactly when build_tree yields nothing; in
\* every other run no failure of a stat, a read or a listing below the root
\* aborts the scan, and the run ends with status 0 after writing the report.
C3_OnlyEmptyTreeFails ==
    \A i \in 1..Len(runs) :
        /\ runs[i].status = 1 <=> runs[i].tree = None
        /\ runs[i].tree # None =>
               /\ ~runs[i].exception
               /\ runs[i].status = 0
               /\ runs[i].written

----------------------------------------------------------------------------
(* C4 *)

\* C4: every directory node of a returned tree has at least one child; a
\* directory below which no file is kept (an empty directory included) has
\* no node in the tree and is not counted in totals.directories.
C4_NoEmptyDirectory ==
    \A i \in TreeRuns :
        LET run == runs[i]
            dirs == { p \in DOMAIN run.seen : run.seen[p].kind = "dir" }
            held == { p \in dirs : KeptBelow(run.seen, p) # {} }
        IN  /\ \A d \in DirNodes(run.tree) : Len(d.children) >= 1
            /\ \A p \in dirs \ held :
                   rel_path(rootName, p) \notin PathsOf(DirNodes(run.tree))
            /\ run.totals # Unset => run.totals.directories <= Cardinality(held)

\* a tree was returned although the scan met an empty directory and a
\* directory that holds only an excluded file
C4_Witness ==
    \E i \in TreeRuns :
        \E p, q \in DOMAIN runs[i].seen :
            /\ runs[i].seen[p].kind = "dir" /\ ~DirExcluded(NameOf(rootName, p))
            /\ runs[i].seen[q].kind = "dir" /\ ~DirExcluded(NameOf(rootName, q))
            /\ Len(p) = 1 /\ Len(q) = 1
            /\ \A r \in DOMAIN runs[i].seen : ~Below(p, r)
            /\ \E r \in DOMAIN runs[i].seen : Below(q, r)
            /\ KeptBelow(runs[i].seen, q) = {}

----------------------------------------------------------------------------
(* C5 *)

\* C5: in every directory node the directory children come before the file
\* children, and within each of the two groups the names ascend when
\* compared case-insensitively.
C5_ChildrenSorted ==
    \A i \in TreeRuns :
        \A d \in DirNodes(runs[i].tree) :
            \A j, k \in 1..Len(d.children) :
                j < k =>
                    LET a == d.children[j]
                        b == d.children[k]
                    IN  /\ ~(a.type = "file" /\ b.type = "directory")
                        /\ a.type = b.type => ~StrLess(lower(b.name), lower(a.name))

\* a directory node with a directory child and two file children whose
\* names sort the other way round by code point, next to a dropped sibling
C5_Witness ==
    \E i \in TreeRuns :
        /\ Cardinality(DOMAIN runs[i].seen) > Cardinality(NodesOf(runs[i].tree))
        /\ \E d \in DirNodes(runs[i].tree) :
               /\ \E j, k \in 1..Len(d.children) :
                      /\ j < k
                      /\ d.children[j].type = "file" /\ d.children[k].type = "file"
                      /\ StrLess(d.children[k].name, d.children[j].name)
               /\ \E j \in 1..Len(d.children) : d.children[j].type = "directory"

----------------------------------------------------------------------------
(* C2 *)

\* the tree of the scenario: src with main.py (lines=3), then README.md
\* (lines=1), nothing else
ScenarioTree(tree) ==
    /\ tree.type = "directory"
    /\ Len(tree.children) = 2
    /\ LET src == tree.children[1]
           readme == tree.children[2]
       IN  /\ src.type = "directory" /\ src.name = "src"
           /\ Len(src.children) = 1
           /\ src.children[1].type = "file"
           /\ src.children[1].name = "main.py"
           /\ "lines" \in DOMAIN src.children[1]
           /\ src.children[1].lines = 3
           /\ readme.type = "file" /\ readme.name = "README.md"
           /\ "lines" \in DOMAIN readme
           /\ readme.lines = 1

ScenarioSize(f) == Len(f[<<"src", "main.py">>].data) + Len(f[<<"README.md">>].data)

\* C2 as stated: the scan of the scenario root yields the scenario tree and
\* totals files=2, directories=1, lines=4, size=the two file sizes.
C2_ScenarioAsStated ==
    Len(runs) >= 1 =>
        /\ runs[1].status = 0
        /\ ScenarioTree(runs[1].tree)
        /\ runs[1].totals = [ files |-> 2, directories |-> 1, lines |-> 4,
                              size |-> ScenarioSize(runs[1].seen) ]

\* C2 amended: the scan of the scenario root yields the scenario tree and
\* totals files=2, directories=2 (the root and src), lines=4, size=the two
\* file sizes.
C2_Scenario ==
    Len(runs) >= 1 =>
        /\ runs[1].status = 0
        /\ ScenarioTree(runs[1].tree)
        /\ runs[1].totals = [ files |-> 2, directories |-> 2, lines |-> 4,
                              size |-> ScenarioSize(runs[1].seen) ]

\* the scenario was scanned, main.py ending without a line terminator
C2_Witness ==
    /\ Len(runs) >= 1
    /\ runs[1].status = 0
    /\ runs[1].seen[<<"src", "main.py">>].data = "a\nb\nc"
    /\ <<"build", "out.o">> \in DOMAIN runs[1].seen
    /\ <<".git", "config">> \in DOMAIN runs[1].seen

----------------------------------------------------------------------------
(* C6 *)

Countable(name) ==
    name \in LINE_COUNT_FILES \/ lower(suffix(name)) \in LINE_COUNT_EXTENSIONS

\* C6 as stated: a file node has a lines field exactly when its name is a
\* countable file name or its lower-cased extension is countable; the field
\* is a natural number; a kept countable file that cannot be read still has
\* its node, with lines 0, and the run ends with status 0.
C6_LinesField ==
    \A i \in TreeRuns :
        LET run == runs[i] IN
        /\ \A n \in FileNodes(run.tree) :
               /\ "lines" \in DOMAIN n <=> Countable(n.name)
               /\ "lines" \in DOMAIN n => n.lines \in Nat
        /\ \A q \in KeptBelow(run.seen, <<>>) :
               run.seen[q].mode = "noread" /\ Countable(q[Len(q)]) =>
                   /\ \E n \in FileNodes(run.tree) :
                          n.path = rel_path(rootName, q) /\ n.lines = 0
                   /\ run.status = 0
                   /\ ~run.exception

----------------------------------------------------------------------------
(* C7 *)

SameResult(a, b) == a.tree = b.tree /\ a.totals = b.totals

\* C7 as stated: two consecutive runs with the same arguments report the
\* same tree and the same totals, also with the report at its default place
\* below the scanned root.
C7_RescanIdentical ==
    \A i \in 1..(Len(runs) - 1) :
        runs[i].args = runs[i + 1].args => SameResult(runs[i], runs[i + 1])

\* the node of the report at its default place below the root
DefaultReportNode(tree) ==
    { n \in FileNodes(tree) : n.path = rel_path(rootName, DefaultOutput) }

\* C7 amended: two consecutive runs with the same arguments report the same
\* tree and the same totals and end with the same status when the report is
\* not an entry the scan keeps (it lies outside the scanned root, or below it
\* in an excluded directory or under an excluded name) or the first run
\* leaves the output file as it found it; a first run that creates the report
\* at its default place makes the tree of the second run hold the node of
\* the report, which the tree of the first run does not hold.
C7_RescanUnlessReportKept ==
    \A i \in 1..(Len(runs) - 1) :
        runs[i].args = runs[i + 1].args =>
            /\ ~ReportKept(runs[i].args) \/ ~runs[i].written =>
                   /\ SameResult(runs[i], runs[i + 1])
                   /\ runs[i].status = runs[i + 1].status
            /\ /\ ~Truthy(runs[i].args.output)
               /\ runs[i].written
               /\ DefaultOutput \notin DOMAIN runs[i].seen
               => /\ HasTree(runs[i + 1])
                  /\ DefaultReportNode(runs[i].tree) = {}
                  /\ DefaultReportNode(runs[i + 1].tree) # {}
                  /\ runs[i].totals.files + 1 = runs[i + 1].totals.files

\* two runs that wrote the report into an excluded directory below the
\* root: the report is a file below the root after them, and the second run
\* has a tree of at least three nodes
C7_Witness ==
    /\ Len(runs) = 2
    /\ runs[1].args = runs[2].args
    /\ ~ReportKept(runs[1].args)
    /\ \E p \in DOMAIN fs :
           /\ ReportBelowRoot(runs[1].args, p)
           /\ fs[p].kind = "file"
    /\ runs[1].written /\ runs[2].written
    /\ Cardinality(NodesOf(runs[2].tree)) >= 3

----------------------------------------------------------------------------
(* C8 *)

RECURSIVE SizeOf(_, _)
\* the sizes of the files at the paths, summed
SizeOf(f, paths) ==
    IF paths = {} THEN 0
    ELSE LET q == CHOOSE q \in paths : TRUE
         IN  st_size(f, q) + SizeOf(f, paths \ {q})

\* C8: no directory node (the root included) has a denylisted or hidden
\* name, no file node has a denylisted name or a compiled extension, and
\* nothing at or below an excluded directory is in the tree or in the totals.
C8_NothingExcluded ==
    \A i \in 1..Len(runs) :
        LET run == runs[i] IN
        /\ DirExcluded(rootName) => ~HasTree(run)
        /\ HasTree(run) =>
               /\ \A n \in DirNodes(run.tree) : ~DirExcluded(n.name)
               /\ \A n \in FileNodes(run.tree) : ~FileExcluded(n.name)
               /\ \A q \in UnderExcluded(run.seen, rootName) :
                      rel_path(rootName, q) \notin PathsOf(NodesOf(run.tree))
               /\ run.totals # Unset =>
                      /\ run.totals.files = Cardinality(KeptBelow(run.seen, <<>>))
                      /\ run.totals.size = SizeOf(run.seen, KeptBelow(run.seen, <<>>))

\* a tree was returned although a hidden directory held a file that no file
\* rule excludes
C8_Witness ==
    \E i \in TreeRuns :
        \E q \in UnderExcluded(runs[i].seen, rootName) :
            /\ runs[i].seen[q].kind = "file"
            /\ ~FileExcluded(q[Len(q)])
            /\ q[1] \notin EXCLUDE_DIRS
            /\ runs[i].seen[q].data # ""

\* a run over a root whose own name is denylisted
C8_RootWitness ==
    \E i \in 1..Len(runs) :
        DirExcluded(rootName) /\ KeptBelow(runs[i].seen, <<>>) # {}

----------------------------------------------------------------------------
(* C9 *)

\* the line terminators of a text: "\n", "\r\n" and a lone "\r"
Terminators(text) ==
    Cardinality({ j \in 1..Len(text) :
                    \/ CharAt(text, j) = "\n"
                    \/ /\ CharAt(text, j) = "\r"
                       /\ ~(j < Len(text) /\ CharAt(text, j + 1) = "\n") })

\* the last line of the text has no terminator
OpenEnded(text) == text # "" /\ CharAt(text, Len(text)) \notin {"\n", "\r"}

\* the readable counted files of a run: <<path, node>>
Counted(run) ==
    { x \in (DOMAIN run.seen) \X FileNodes(run.tree) :
        /\ x[2].path = rel_path(rootName, x[1])
        /\ "lines" \in DOMAIN x[2]
        /\ run.seen[x[1]].mode # "noread" }

\* C9 as stated: the lines of a readable counted file are the line
\* terminators of its content.
C9_CountsTerminators ==
    \A i \in TreeRuns :
        \A x \in Counted(runs[i]) :
            x[2].lines = Terminators(decode(runs[i].seen[x[1]].data))

\* C9 amended: the lines of a readable counted file are the lines of its
\* decoded content: its line terminators, and one more when the content is
\* not empty and does not end with a terminator.
C9_CountsLines ==
    \A i \in TreeRuns :
        \A x \in Counted(runs[i]) :
            LET text == decode(runs[i].seen[x[1]].data)
            IN  x[2].lines = Terminators(text) + (IF OpenEnded(text) THEN 1 ELSE 0)

\* a counted file with "\r\n", a dropped byte and an open last line
C9_Witness ==
    \E i \in TreeRuns :
        \E x \in Counted(runs[i]) :
            /\ runs[i].seen[x[1]].data = "\r\n~x"
            /\ x[2].lines = 2

----------------------------------------------------------------------------
(* C10 *)

Marked(d) == \E i \in 1..Len(markers) : Append(d, markers[i]) \in DOMAIN outside

\* C10: without --root the search ends with a root: the nearest directory
\* with a marker on the chain from the working directory up to and
\* including "/", and the working directory when no directory of the chain
\* has one.
C10_NearestMarkedDirectory ==
    resolved.done /\ resolved.root = NoArg =>
        /\ ~resolved.path.raised
        /\ LET marked == { d \in Chain(cwd) : Marked(d) }
           IN  IF marked = {} THEN resolved.path.value = cwd
               ELSE /\ resolved.path.value \in marked
                    /\ \A d \in marked : Len(d) <= Len(resolved.path.value)

====
